---- MODULE Spec2Model ----
(***************************************************************************)
(* Model of Extras/rename_screenshots.py (PocketScore screenshot renamer). *)
(*                                                                         *)
(* File names are sequences of one-character strings, so that endswith,    *)
(* the codepoint sort and the two f-string formats are computed the way    *)
(* the script computes them.  The target directory is a function from the  *)
(* names present to the content stored under each name; the content of a   *)
(* file is tagged by the name the file had when the model starts.          *)
(***************************************************************************)
EXTENDS Integers, Sequences, FiniteSets, TLC

\* ---------------------------------------------------------------- bounds
MaxFiles == 3

MaxRuns == 2

\* ------------------------------------------------------------ characters
Digits == <<"0", "1", "2", "3", "4", "5", "6", "7", "8", "9">>

Upper == <<"A", "B", "C", "D", "E", "F", "G", "H", "I", "J", "K", "L", "M",
           "N", "O", "P", "Q", "R", "S", "T", "U", "V", "W", "X", "Y", "Z">>

Lower == <<"a", "b", "c", "d", "e", "f", "g", "h", "i", "j", "k", "l", "m",
           "n", "o", "p", "q", "r", "s", "t", "u", "v", "w", "x", "y", "z">>

Range(s) == {s[k] : k \in 1..Len(s)}

IndexOf(s, c) == CHOOSE k \in 1..Len(s) : s[k] = c

\* Unicode codepoint of a character, as used by Python's str comparison.
Code(c) ==
    CASE c = "." -> 46
      [] c = "_" -> 95
      [] c \in Range(Digits) -> 47 + IndexOf(Digits, c)
      [] c \in Range(Upper) -> 64 + IndexOf(Upper, c)
      [] c \in Range(Lower) -> 96 + IndexOf(Lower, c)

\* Python's a < b on str: first differing codepoint, else the shorter one.
StrLess(a, b) ==
    LET m == IF Len(a) < Len(b) THEN Len(a) ELSE Len(b)
        diffs == {k \in 1..m : a[k] # b[k]}
    IN  IF diffs = {}
        THEN Len(a) < Len(b)
        ELSE LET k == CHOOSE x \in diffs : \A y \in diffs : x <= y
             IN  Code(a[k]) < Code(b[k])

\* str.endswith(suffix)
EndsWith(s, suf) ==
    /\ Len(s) >= Len(suf)
    /\ SubSeq(s, Len(s) - Len(suf) + 1, Len(s)) = suf

\* valid_exts = ('.jpg', '.jpeg', '.JPG', '.JPEG')
valid_exts ==
    << <<".", "j", "p", "g">>,
       <<".", "j", "p", "e", "g">>,
       <<".", "J", "P", "G">>,
       <<".", "J", "P", "E", "G">> >>

\* Mutant: no filter, every listed name is taken.
IsEligible_all(f) == TRUE

\* f.endswith(valid_exts): true when some suffix of the tuple matches.
IsEligible(f) == \E k \in 1..Len(valid_exts) : EndsWith(f, valid_exts[k])

\* ------------------------------------------------------------ formatting
\* str(n) for n >= 0, as produced by "{i}" in an f-string.
RECURSIVE Dec(_)
Dec(n) == IF n < 10 THEN <<Digits[n + 1]>>
          ELSE Dec(n \div 10) \o <<Digits[(n % 10) + 1]>>

\* "{index:02d}": decimal digits, left-padded with zeros to width 2.
Format02d(n) == LET s == Dec(n) IN IF Len(s) < 2 THEN <<"0">> \o s ELSE s

\* f"re_naming_tmp_{i}.tmp"
temp_filename(n) ==
    <<"r", "e", "_", "n", "a", "m", "i", "n", "g", "_", "t", "m", "p", "_">>
    \o Dec(n) \o <<".", "t", "m", "p">>

\* Mutant: the index formatted without zero padding ("{index}").
final_filename_nopad(n) ==
    <<"s", "c", "r", "e", "e", "n", "_">> \o Dec(n) \o <<".", "j", "p", "g">>

\* f"screen_{index:02d}.jpg"
final_filename(n) ==
    <<"s", "c", "r", "e", "e", "n", "_">> \o Format02d(n) \o <<".", "j", "p", "g">>

\* ------------------------------------------------------------------ sort
\* Mutant: the list is left in the order os.listdir returned it.
Sort_none(s) == s

\* files.sort() on a list of distinct names (a directory listing never
\* repeats a name): position k holds the name that has exactly k - 1 names
\* of the list below it under StrLess.
Sort(s) ==
    [k \in 1..Len(s) |->
        CHOOSE x \in Range(s) :
            Cardinality({y \in Range(s) : StrLess(y, x)}) = k - 1]

\* ------------------------------------------------------------ file names
Universe ==
    { <<"b", ".", "j", "p", "g">>,
      <<"a", ".", "j", "p", "e", "g">>,
      <<"B", ".", "J", "P", "G">>,
      <<"c", ".", "J", "P", "E", "G">>,
      <<"s", "c", "r", "e", "e", "n", "_", "0", "1", ".", "j", "p", "g">>,
      <<"d", ".", "J", "p", "g">>,
      <<"j", "p", "g">>,
      <<"r", "e", "_", "n", "a", "m", "i", "n", "g", "_", "t", "m", "p", "_",
        "1", ".", "t", "m", "p">> }

\* --------------------------------------------------------- the directory
\* os.listdir(target_dir): the names present, in arbitrary order.
Listings(d) ==
    LET S == DOMAIN d
        n == Cardinality(S)
    IN  {s \in [1..n -> S] : \A a, b \in 1..n : a # b => s[a] # s[b]}

\* A successful os.rename(src, dst): dst now holds what src held, src is
\* gone; a file already at dst is replaced (POSIX).
Rename(d, src, dst) ==
    [n \in (DOMAIN d \ {src}) \cup {dst} |-> IF n = dst THEN d[src] ELSE d[n]]

\* The outcomes os.rename(src, dst) can have: it may raise OSError for any
\* reason (permissions, a locked file, dst existing on Windows), and it
\* always raises when src does not exist.
RenameOutcomes(d, src) == IF src \in DOMAIN d THEN BOOLEAN ELSE {FALSE}

VARIABLES exists, dir, start, pc, files, i, temp_records, j, attempts, out,
          run, prevClean

vars == <<exists, dir, start, pc, files, i, temp_records, j, attempts, out,
          run, prevClean>>

\* Every rename attempted so far in this run succeeded.
Clean == \A k \in 1..Len(attempts) : attempts[k].ok

Init ==
    /\ exists \in BOOLEAN
    /\ \E S \in SUBSET Universe :
          /\ Cardinality(S) <= MaxFiles
          /\ ~exists => S = {}
          /\ dir = [n \in S |-> n]
    /\ start = dir
    /\ pc = "check"
    /\ files = <<>>
    /\ i = 1
    /\ temp_records = <<>>
    /\ j = 1
    /\ attempts = <<>>
    /\ out = <<>>
    /\ run = 1
    /\ prevClean = FALSE

\* --------------------------------------------------------------- actions
\* Mutant: the existence test inverted.
DirMissing_inverted == exists

\* not os.path.exists(target_dir)
DirMissing == ~exists

\* Lines 15-20: locate the target directory; report and return if absent.
CheckDir ==
    /\ pc = "check"
    /\ IF DirMissing
       THEN /\ out' = Append(out, "Error: Target directory does not exist.")
            /\ pc' = "done"
       ELSE /\ pc' = "list"
            /\ out' = out
    /\ UNCHANGED <<exists, dir, start, files, i, temp_records, j, attempts,
                   run, prevClean>>

\* Lines 23-35: list, filter, sort; report and return if nothing matches.
\* os.listdir raises when the directory is absent: the run ends in a
\* traceback without printing any of the script's messages.
ListFiles ==
    /\ pc = "list"
    /\ IF ~exists
       THEN /\ pc' = "crashed"
            /\ UNCHANGED <<files, out>>
       ELSE \E listing \in Listings(dir) :
              LET sorted == Sort(SelectSeq(listing, IsEligible))
              IN  /\ files' = sorted
                  /\ IF sorted = <<>>
                     THEN /\ out' = Append(out, "No matching screenshots found.")
                          /\ pc' = "done"
                     ELSE /\ out' = Append(out, "Processing")
                          /\ pc' = "stage"
    /\ i' = 1
    /\ temp_records' = <<>>
    /\ UNCHANGED <<exists, dir, start, j, attempts, run, prevClean>>

\* Mutant: the record is appended whether or not the rename succeeded.
StageRecord_always(recs, n, ok) == Append(recs, <<temp_filename(n), n>>)

\* Mutant: the recorded index is the count of records, not the position of
\* the file in the sorted list.
StageRecord_renumber(recs, n, ok) ==
    IF ok THEN Append(recs, <<temp_filename(n), Len(recs) + 1>>) ELSE recs

\* Lines 45-49: temp_records after one staging attempt; a failed file is
\* not recorded.
StageRecord(recs, n, ok) ==
    IF ok THEN Append(recs, <<temp_filename(n), n>>) ELSE recs

\* Mutant: an error in finalization ends the loop (exception not caught).
AfterFinalize_abort(k, n, ok) == IF ok THEN k + 1 ELSE n + 1

\* Mutant: every other record is skipped, as when the list is shortened
\* while it is being iterated.
AfterFinalize_skip(k, n, ok) == k + 2

\* Lines 52-60: position in temp_records after the attempt on record k of
\* n; the except clause only prints, so the loop moves to the next record.
AfterFinalize(k, n, ok) == k + 1

\* Lines 40-49: one iteration of the staging loop, on files[i].
Stage ==
    /\ pc = "stage"
    /\ i <= Len(files)
    /\ LET filename == files[i]
           temp == temp_filename(i)
       IN  \E ok \in RenameOutcomes(dir, filename) :
             /\ dir' = IF ok THEN Rename(dir, filename, temp) ELSE dir
             /\ temp_records' = StageRecord(temp_records, i, ok)
             /\ attempts' = Append(attempts,
                    [phase |-> "stage", src |-> filename, dst |-> temp,
                     index |-> i, ok |-> ok,
                     content |-> dir[filename],
                     dstHeld |-> temp \in DOMAIN dir])
             /\ out' = IF ok THEN out ELSE Append(out, "Failed to process")
    /\ i' = i + 1
    /\ IF i' > Len(files)
       THEN /\ pc' = "finalize"
            /\ j' = 1
       ELSE UNCHANGED <<pc, j>>
    /\ UNCHANGED <<exists, start, files, run, prevClean>>

\* Lines 52-60: one iteration of the finalization loop, on temp_records[j].
Finalize ==
    /\ pc = "finalize"
    /\ j <= Len(temp_records)
    /\ LET temp == temp_records[j][1]
           index == temp_records[j][2]
           final == final_filename(index)
       IN  \E ok \in RenameOutcomes(dir, temp) :
             /\ dir' = IF ok THEN Rename(dir, temp, final) ELSE dir
             /\ attempts' = Append(attempts,
                    [phase |-> "finalize", src |-> temp, dst |-> final,
                     index |-> index, ok |-> ok,
                     content |-> IF temp \in DOMAIN dir THEN dir[temp]
                                 ELSE <<>>,
                     dstHeld |-> final \in DOMAIN dir])
             /\ out' = Append(out, IF ok THEN "Renamed" ELSE "Error finalized")
             /\ j' = AfterFinalize(j, Len(temp_records), ok)
    /\ UNCHANGED <<exists, start, pc, files, i, temp_records, run, prevClean>>

\* Line 62: the completion banner.
Complete ==
    /\ pc = "finalize"
    /\ j > Len(temp_records)
    /\ out' = Append(out, "Batch rename complete.")
    /\ pc' = "done"
    /\ UNCHANGED <<exists, dir, start, files, i, temp_records, j, attempts,
                   run, prevClean>>

\* Lines 64-65: the script is run again on the directory as it stands.
Invoke ==
    /\ pc = "done"
    /\ run < MaxRuns
    /\ run' = run + 1
    /\ prevClean' = Clean
    /\ start' = dir
    /\ pc' = "check"
    /\ files' = <<>>
    /\ i' = 1
    /\ temp_records' = <<>>
    /\ j' = 1
    /\ attempts' = <<>>
    /\ out' = <<>>
    /\ UNCHANGED <<exists, dir>>

Next ==
    \/ CheckDir
    \/ ListFiles
    \/ Stage
    \/ Finalize
    \/ Complete
    \/ Invoke

Spec == Init /\ [][Next]_vars

\* The interpreter keeps executing the script until it returns.
FairSpec == Spec /\ WF_vars(CheckDir \/ ListFiles \/ Stage \/ Finalize \/ Complete)

\* ------------------------------------------------- vocabulary of the claims
\* The four literal suffixes the specification names, written out.
HasImageSuffix(n) ==
    \/ EndsWith(n, <<".", "j", "p", "g">>)
    \/ EndsWith(n, <<".", "j", "p", "e", "g">>)
    \/ EndsWith(n, <<".", "J", "P", "G">>)
    \/ EndsWith(n, <<".", "J", "P", "E", "G">>)

EligibleAtStart == {n \in DOMAIN start : HasImageSuffix(n)}

OnlyEligibleAtStart == \A n \in DOMAIN start : HasImageSuffix(n)

\* screen_NN.jpg written out for 1 <= k <= 99.
ScreenName(k) ==
    <<"s", "c", "r", "e", "e", "n", "_", Digits[(k \div 10) + 1],
      Digits[(k % 10) + 1], ".", "j", "p", "g">>

\* 1-based position of n among the eligible names at the start of the run.
Rank(n) == 1 + Cardinality({f \in EligibleAtStart : StrLess(f, n)})

\* The name under which content c was stored when the run started.
StartName(c) == CHOOSE n \in DOMAIN start : start[n] = c

StageAttempts == SelectSeq(attempts, LAMBDA a : a.phase = "stage")

FinalizeAttempts == SelectSeq(attempts, LAMBDA a : a.phase = "finalize")

Banner == "Batch rename complete."

Finished == pc = "done" /\ out # <<>> /\ out[Len(out)] = Banner

\* ---------------------------------------------------------------- claims
\* C1: in a directory holding only eligible files, after a run in which no
\* rename failed, the names present are exactly screen_01.jpg ..
\* screen_0N.jpg, N being the number of eligible files at the start.
C1_ExactNameSet ==
    (pc = "done" /\ exists /\ OnlyEligibleAtStart /\ Clean)
        => DOMAIN dir = {ScreenName(k) : k \in 1..Cardinality(DOMAIN start)}

C1_Witness ==
    /\ pc = "done" /\ run = 1 /\ Clean /\ OnlyEligibleAtStart
    /\ Cardinality(DOMAIN start) = 3
    /\ ScreenName(1) \in DOMAIN start
    /\ Len(attempts) = 6

\* C2: after a run in which no rename failed, the content that was stored
\* under the k-th eligible name in codepoint order is stored under
\* screen_<k, two digits>.jpg.
C2_OrderPreserved ==
    (pc = "done" /\ Clean)
        => \A n \in EligibleAtStart :
              /\ ScreenName(Rank(n)) \in DOMAIN dir
              /\ dir[ScreenName(Rank(n))] = start[n]

C2_Witness ==
    /\ pc = "done" /\ run = 1 /\ Clean
    /\ <<"b", ".", "j", "p", "g">> \in DOMAIN start
    /\ <<"a", ".", "j", "p", "e", "g">> \in DOMAIN start
    /\ ScreenName(1) \in DOMAIN dir
    /\ dir[ScreenName(1)] = <<"a", ".", "j", "p", "e", "g">>
    /\ dir[ScreenName(2)] = <<"b", ".", "j", "p", "g">>

\* C3 (as claimed): after any run, every file whose name has none of the
\* four suffixes is still present under its name with its content.
C3_NonEligibleUntouched ==
    pc = "done"
        => \A n \in DOMAIN start :
              ~HasImageSuffix(n) => (n \in DOMAIN dir /\ dir[n] = start[n])

\* C4: a failure-free run on the output of a failure-free run leaves the set
\* of names and the set of contents as they were.
C4_Idempotent ==
    (pc = "done" /\ run >= 2 /\ prevClean /\ Clean)
        => /\ DOMAIN dir = DOMAIN start
           /\ {dir[n] : n \in DOMAIN dir} = {start[n] : n \in DOMAIN start}

C4_Witness ==
    /\ pc = "done" /\ run = 2 /\ prevClean /\ Clean
    /\ Len(attempts) = 4
    /\ DOMAIN dir = {ScreenName(1), ScreenName(2)}

\* C5: when the target directory does not exist, the run prints the error
\* message and ends; no rename is attempted and nothing is modified.
C5_MissingDirectory ==
    (~exists /\ pc # "check")
        => /\ pc = "done"
           /\ out = <<"Error: Target directory does not exist.">>
           /\ attempts = <<>>
           /\ dir = start

C5_Witness == ~exists /\ pc = "done" /\ Len(out) = 1

\* C6: when the directory holds no eligible file, the run prints the
\* "no matching screenshots" message and ends; no rename is attempted and
\* the directory is as it was.
C6_NoEligibleFiles ==
    (exists /\ EligibleAtStart = {} /\ pc \notin {"check", "list"})
        => /\ pc = "done"
           /\ out = <<"No matching screenshots found.">>
           /\ attempts = <<>>
           /\ dir = start

C6_Witness ==
    /\ exists /\ pc = "done" /\ EligibleAtStart = {}
    /\ <<"d", ".", "J", "p", "g">> \in DOMAIN start
    /\ Len(out) = 1

\* C7: a file whose staging rename failed is not recorded and is never a
\* source of a finalization attempt; once staging is over, a staging
\* attempt was made for every eligible file; and every finalized file is
\* named by its own position in the sorted list of all eligible files.
C7_StagingFailureSkipped ==
    /\ \A k \in 1..Len(attempts) :
          (attempts[k].phase = "stage" /\ ~attempts[k].ok)
              => /\ \A r \in 1..Len(temp_records) :
                       temp_records[r][2] # attempts[k].index
                 /\ \A m \in 1..Len(attempts) :
                       attempts[m].phase = "finalize"
                           => /\ attempts[m].index # attempts[k].index
                              /\ attempts[m].content # attempts[k].content
    /\ (pc = "finalize" \/ Finished)
          => {StageAttempts[k].src : k \in 1..Len(StageAttempts)}
                 = EligibleAtStart
    /\ \A m \in 1..Len(attempts) :
          (attempts[m].phase = "finalize" /\ attempts[m].ok)
              => /\ attempts[m].dst
                       = ScreenName(Rank(StartName(attempts[m].content)))
                 /\ attempts[m].index = Rank(StartName(attempts[m].content))

C7_Witness ==
    /\ Finished
    /\ Len(files) = 3
    /\ attempts[1].phase = "stage" /\ ~attempts[1].ok
    /\ attempts[2].ok /\ attempts[3].ok
    /\ Len(attempts) = 5
    /\ attempts[4].ok /\ attempts[4].dst = ScreenName(2)
    /\ attempts[5].ok /\ attempts[5].dst = ScreenName(3)

\* C8: a staged file whose finalization rename failed stays under its
\* temporary name, and under no other name, for the rest of the run; it is
\* not attempted again; and when the run ends every record has had its
\* finalization attempt, in the order of the records.
C8_FinalizationFailureLeavesTemp ==
    /\ \A k \in 1..Len(attempts) :
          (attempts[k].phase = "finalize" /\ ~attempts[k].ok)
              => /\ attempts[k].src = temp_filename(attempts[k].index)
                 /\ attempts[k].src \in DOMAIN dir
                 /\ \A n \in DOMAIN dir :
                       dir[n] = attempts[k].content <=> n = attempts[k].src
                 /\ \A m \in 1..Len(attempts) :
                       (m # k /\ attempts[m].phase = "finalize")
                           => attempts[m].index # attempts[k].index
    /\ pc = "done" /\ files # <<>>
          => /\ Finished
             /\ Len(FinalizeAttempts) = Len(temp_records)
             /\ \A r \in 1..Len(temp_records) :
                   /\ FinalizeAttempts[r].src = temp_records[r][1]
                   /\ FinalizeAttempts[r].index = temp_records[r][2]

C8_Witness ==
    /\ Finished
    /\ Len(temp_records) = 3
    /\ ~FinalizeAttempts[1].ok
    /\ FinalizeAttempts[2].ok
    /\ ~FinalizeAttempts[3].ok
    /\ temp_filename(1) \in DOMAIN dir

\* The rename attempts of a finished run, in order: one staging attempt per
\* eligible file in sorted order, then one finalization attempt per staged
\* file in the same order; no content is the source of more than two
\* attempts, and a finalized content of exactly two.
AttemptsOrdered ==
    LET st == StageAttempts
        fi == FinalizeAttempts
        staged == SelectSeq(st, LAMBDA a : a.ok)
        Uses(c) == Cardinality({k \in 1..Len(attempts) :
                                   attempts[k].content = c})
    IN  /\ attempts = st \o fi
        /\ Len(st) = Cardinality(EligibleAtStart)
        /\ \A k \in 1..Len(st) :
              /\ st[k].src \in EligibleAtStart
              /\ Rank(st[k].src) = k
              /\ st[k].index = k
        /\ Len(fi) = Len(staged)
        /\ \A k \in 1..Len(fi) :
              /\ fi[k].index = staged[k].index
              /\ fi[k].content = staged[k].content
        /\ \A n \in DOMAIN start :
              /\ Uses(start[n]) <= 2
              /\ (\E k \in 1..Len(fi) : fi[k].ok /\ fi[k].content = start[n])
                    => Uses(start[n]) = 2

\* C9: whatever renames fail, a run that found an eligible file reaches the
\* completion banner, and its attempts are then ordered as AttemptsOrdered
\* says.
C9_TerminatesInOrder ==
    /\ (pc = "stage") ~> Finished
    /\ []((pc = "done" /\ files # <<>>) => (Finished /\ AttemptsOrdered))

C9_Witness ==
    /\ Finished
    /\ Len(StageAttempts) = 3
    /\ ~StageAttempts[2].ok
    /\ Len(FinalizeAttempts) = 2
    /\ ~FinalizeAttempts[1].ok
    /\ FinalizeAttempts[2].ok

\* C10 (as claimed): in a directory holding only eligible files, no
\* successful rename has a destination that holds a file at that moment,
\* and the run ends with as many files as it started with.
C10_NoOverwrite ==
    OnlyEligibleAtStart
        => /\ \A k \in 1..Len(attempts) :
                 attempts[k].ok => ~attempts[k].dstHeld
           /\ pc = "done"
                 => Cardinality(DOMAIN dir) = Cardinality(DOMAIN start)

====
